---- MODULE Spec2Model ----
(***************************************************************************)
(* Multi-device synchronisation of the Valut expense tracker: the sync     *)
(* routes (status, changes, push, resolve-conflicts, register-device), the *)
(* Expense / Category / Budget documents they read and write, and the      *)
(* expense controller that writes the same Expense documents directly.     *)
(*                                                                         *)
(* A document is a function from field names to values.  Only the fields   *)
(* the sync code reads or writes are kept: userId, description (standing   *)
(* for the entity's payload), the soft-delete flag (isDeleted on Expense,  *)
(* isActive on Category and Budget), updatedAt, and, on Expense only,      *)
(* sync.syncVersion and sync.deviceId (CategorySchema and BudgetSchema     *)
(* declare no sync path).  A client payload (change.data, localData,       *)
(* remoteData, a request body) is a function on a subset of these names.   *)
(* Time is the server clock in whole ticks.                                *)
(***************************************************************************)
EXTENDS Integers, Sequences, FiniteSets, TLC

VARIABLES
    store,      \* store[Model][id]: the documents of each collection
    devices,    \* devices[userId]: the user's devices array, in registration order
    now,        \* the server clock, Date.now()
    last,       \* the request handled last and the response it got
    ops,        \* number of requests handled so far
    txns,       \* txns[deviceId]: the push of that device that is under way
    replica,    \* the copy of the user's records that one device keeps
    caches      \* the service worker's caches: api responses and offline requests

vars == <<store, devices, now, last, ops, txns, replica, caches>>

(***************************** bounds **************************************)
MaxTime == 2
MaxId == 2
MaxBatch == 2
MaxOps == 3
MaxBatchOps == 2
MaxStatusOps == 4
MaxRaceSetup == 1
MaxRaceOps == 7
MaxRoundOps == 6
MaxRequestOps == 3
MaxSeedOps == 2
MaxResolveOps == 3
MaxTimestampOps == 3
MaxOfflineOps == 3

(***************************** value sets **********************************)
Models == {"Expense", "Category", "Budget"}
Users == {"u1", "u2"}
Devices == {"dA", "dB"}
Ids == 1..MaxId
Times == 1..MaxTime
\* a clientTimestamp / since value that parses to a date
ClientTimes == 0..MaxTime

\* field of a document that no request ever set
None == "none"
\* a date field that is not set (deletedAt of a live Expense)
Never == 0

(***************************** schemas *************************************)
\* the paths of a schema that the model keeps
SchemaFields(Model) ==
    IF Model = "Expense"
    THEN {"userId", "description", "isDeleted", "deletedAt", "updatedAt",
          "syncVersion", "deviceId", "hasConflict"}
    ELSE {"userId", "description", "isActive", "updatedAt"}

\* the schema default of a path (Date.now for the dates)
SchemaDefault(f, t) ==
    CASE f = "userId" -> None
      [] f = "description" -> None
      [] f = "isDeleted" -> FALSE
      [] f = "deletedAt" -> Never
      [] f = "isActive" -> TRUE
      [] f = "updatedAt" -> t
      [] f = "syncVersion" -> 1
      [] f = "deviceId" -> None
      [] f = "hasConflict" -> FALSE

\* new Model(fields): paths outside the schema are dropped (strict mode),
\* missing paths take their defaults
NewDoc(Model, fields, t) ==
    [f \in SchemaFields(Model) |->
        IF f \in DOMAIN fields THEN fields[f] ELSE SchemaDefault(f, t)]

\* the delete flag of a document, as the change feed reads it
SoftDeleted(Model, doc) ==
    IF Model = "Expense" THEN doc.isDeleted ELSE ~doc.isActive

\* f with key k bound to v
Put(f, k, v) == [x \in (DOMAIN f) \cup {k} |-> IF x = k THEN v ELSE f[x]]

\* { ...a, ...b }: the fields of b over those of a
Spread(a, b) ==
    [f \in (DOMAIN a) \cup (DOMAIN b) |-> IF f \in DOMAIN b THEN b[f] ELSE a[f]]

\* Object.assign(doc, data) on a document: the schema's paths take data's
\* values.  data.sync replaces the whole sync object, so a payload that
\* carries syncVersion also resets sync.deviceId.
AssignDoc(Model, doc, data) ==
    [f \in DOMAIN doc |->
        IF f \in DOMAIN data THEN data[f]
        ELSE IF f = "deviceId" /\ "syncVersion" \in DOMAIN data THEN None
        ELSE doc[f]]

\* pre('save') of the three schemas: this.updatedAt = Date.now()
PreSave(doc, t) == [doc EXCEPT !.updatedAt = t]

\* doc.save() into collection Model of database db
Save(db, Model, id, doc, t) ==
    [db EXCEPT ![Model] = Put(@, id, PreSave(doc, t))]

(***************************** push ****************************************)
\* Model.modelName.toLowerCase()
LowerName(Model) ==
    CASE Model = "Expense" -> "expense"
      [] Model = "Category" -> "category"
      [] Model = "Budget" -> "budget"

\* new Date(clientTimestamp) of a clientTimestamp that is missing or is no
\* date: the Invalid Date, whose time value is NaN
InvalidDate == -1

\* the comparison turned round
NewerThanReversed(updatedAt, clientTimestamp) == clientTimestamp > updatedAt

\* the comparison with >= for >
NewerThanOrEqual(updatedAt, clientTimestamp) == updatedAt >= clientTimestamp

\* existing.updatedAt > new Date(clientTimestamp): the two dates are compared
\* by their time values, and a comparison with NaN is false
NewerThan(updatedAt, clientTimestamp) ==
    clientTimestamp # InvalidDate /\ updatedAt > clientTimestamp

\* The state one request threads through its loop: db is the committed
\* database, tx the transaction's view of it (every write made with the
\* session), conflicts and processed the two result lists, threw whether
\* an exception has been thrown.
StartPush(db) ==
    [db |-> db, tx |-> db, conflicts |-> <<>>,
     processed |-> [Model \in Models |-> <<>>], threw |-> FALSE]

\* doc.save({ session }), and doc.save() of a document that a query with
\* .session(session) loaded: the write belongs to the transaction
SessionSave(st, Model, id, doc, t) ==
    [st EXCEPT !.tx = Save(st.tx, Model, id, doc, t)]

\* a save outside any session: written to the database at once
DirectSave(st, Model, id, doc, t) ==
    [st EXCEPT !.tx = Save(st.tx, Model, id, doc, t),
               !.db = Save(st.db, Model, id, doc, t)]

\* what processSyncChange returns: { conflict } or { item }, or an exception
Returned(st, result) == [st |-> st, result |-> result]
Thrown(st) == [st |-> [st EXCEPT !.threw = TRUE], result |-> <<>>]

\* { item: { id, action: 'deleted' } }
Deleted(id) == [item |-> [id |-> id, action |-> "deleted"]]

\* { item: doc }: the document as save() left it
Upserted(id, doc, t) == [item |-> [id |-> id, action |-> "upsert", doc |-> PreSave(doc, t)]]

\* a delete that also clears what the user wrote
softDeleteWiping(doc, t) ==
    [doc EXCEPT !.isDeleted = TRUE, !.deletedAt = t, !.description = None]

\* ExpenseSchema.methods.softDelete: this.isDeleted = true; this.deletedAt =
\* Date.now(); then this.save()
softDelete(doc, t) == [doc EXCEPT !.isDeleted = TRUE, !.deletedAt = t]

\* a Category or Budget flagged by the delete branch with a save outside the
\* session, an Expense by softDelete() outside it
DeleteExistingOutsideSession(Model, change, st, existing, t) ==
    Returned(IF Model = "Expense"
             THEN DirectSave(st, Model, change.id, softDelete(existing, t), t)
             ELSE DirectSave(st, Model, change.id, [existing EXCEPT !.isActive = FALSE], t),
             Deleted(change.id))

\* the delete branch of processSyncChange on an existing document: an Expense
\* is saved by softDelete() (the document was loaded through the session, so
\* its save() is part of the transaction), a Category or Budget by
\* save({ session })
DeleteExisting(Model, change, st, existing, t) ==
    Returned(IF Model = "Expense"
             THEN SessionSave(st, Model, change.id, softDelete(existing, t), t)
             ELSE SessionSave(st, Model, change.id, [existing EXCEPT !.isActive = FALSE], t),
             Deleted(change.id))

\* the update branch: Object.assign(existing, data); existing.sync.deviceId =
\* deviceId; existing.sync.syncVersion += 1; save({ session }).  existing.sync
\* is undefined on a Category or Budget (their schemas have no sync path)
\* unless data itself carried a sync object, and then the assignment throws a
\* TypeError; a sync object set that way is not a path the save persists.
UpdateExisting(Model, change, deviceId, st, existing, t) ==
    LET assigned == AssignDoc(Model, existing, change.data)
        hasSync == "syncVersion" \in DOMAIN assigned \/ "syncVersion" \in DOMAIN change.data
        bumped == IF "syncVersion" \in DOMAIN assigned
                  THEN [assigned EXCEPT !.deviceId = deviceId,
                                        !.syncVersion = @ + 1]
                  ELSE assigned
    IN IF ~hasSync
       THEN Thrown(st)
       ELSE Returned(SessionSave(st, Model, change.id, bumped, t),
                     Upserted(change.id, bumped, t))

\* the create branch: new Model({...data, _id: id, userId, sync: {deviceId,
\* syncVersion: 1, lastSyncedAt}}), then save({ session })
CreateNew(Model, change, userId, deviceId, st, t) ==
    LET fields == Spread(change.data,
                         [userId |-> userId, deviceId |-> deviceId, syncVersion |-> 1])
    IN Returned(SessionSave(st, Model, change.id, NewDoc(Model, fields, t), t),
                Upserted(change.id, NewDoc(Model, fields, t), t))

\* processSyncChange(Model, change, userId, deviceId, session)
processSyncChange(Model, change, userId, deviceId, st, t) ==
    LET exists == change.id \in DOMAIN st.tx[Model]
        existing == st.tx[Model][change.id]
        conflict(reason) ==
            Returned(st, [conflict |->
                [id |-> change.id, type |-> LowerName(Model),
                 localData |-> change.data, remoteData |-> existing,
                 reason |-> reason]])
    IN IF change.action = "delete"
       THEN IF exists
            THEN IF NewerThan(existing.updatedAt, change.clientTimestamp)
                 THEN conflict("newer_version_exists")
                 ELSE DeleteExisting(Model, change, st, existing, t)
            ELSE Returned(st, Deleted(change.id))
       ELSE IF exists
            THEN IF NewerThan(existing.updatedAt, change.clientTimestamp)
                 THEN conflict("concurrent_modification")
                 ELSE UpdateExisting(Model, change, deviceId, st, existing, t)
            ELSE CreateNew(Model, change, userId, deviceId, st, t)

\* if (result.conflict) conflicts.push(result.conflict);
\* else processed[kind].push(result.item)
Collect(Model, r) ==
    IF r.st.threw
    THEN r.st
    ELSE IF "conflict" \in DOMAIN r.result
    THEN [r.st EXCEPT !.conflicts = Append(@, r.result.conflict)]
    ELSE [r.st EXCEPT !.processed[Model] = Append(@, r.result.item)]

\* one of the three loops of the push handler, over one list in list order.
\* failAt is the position of the change whose storage call fails (0: none
\* does).  An exception leaves the loop at once.
RECURSIVE ProcessList(_, _, _, _, _, _, _, _)
ProcessList(Model, list, i, userId, deviceId, st, t, failAt) ==
    IF i > Len(list) \/ st.threw
    THEN st
    ELSE ProcessList(Model, list, i + 1, userId, deviceId,
            IF failAt = i
            THEN [st EXCEPT !.threw = TRUE]
            ELSE Collect(Model, processSyncChange(Model, list[i], userId, deviceId, st, t)),
            t, failAt)

\* changes.expenses, then changes.categories, then changes.budgets
ProcessChanges(changes, userId, deviceId, db, t, failAt) ==
    LET e == ProcessList("Expense", changes.expenses, 1, userId, deviceId,
                         StartPush(db), t, failAt)
        c == ProcessList("Category", changes.categories, 1, userId, deviceId,
                         e, t, failAt - Len(changes.expenses))
    IN ProcessList("Budget", changes.budgets, 1, userId, deviceId,
                   c, t, failAt - Len(changes.expenses) - Len(changes.categories))

\* number of changes of a push body
Size(changes) == Len(changes.expenses) + Len(changes.categories) + Len(changes.budgets)

\* User.findByIdAndUpdate(userId, {$set: {'devices.$.lastSyncAt': new Date()}},
\* {arrayFilters: [{'device.deviceId': deviceId}], session}).  The path names
\* its array element with the positional operator $, which stands for the
\* element the query matched; the query is {_id: userId} and matches no
\* element of devices.  The arrayFilters entry binds the identifier device,
\* which the path does not use ($[device]).  So the update selects no entry:
\* the store either refuses it (the storage error of Push at position
\* Size(changes) + 1) or writes none.
UpdateDeviceTimestamp(devs, userId, deviceId, t) ==
    LET matched == {}
    IN [devs EXCEPT ![userId] =
          [i \in DOMAIN @ |-> IF i \in matched
                              THEN [@[i] EXCEPT !.lastSyncAt = t] ELSE @[i]]]

\* the broadcast without the tag of the originating device
SyncUpdateUntagged(userId, deviceId, processed) ==
    [room |-> userId, deviceId |-> "", changes |-> processed]

\* io.to(`user-${userId}`).emit('sync-update', {deviceId, changes: processed,
\* timestamp}): the broadcast to the user's room, sent after the commit
SyncUpdate(userId, deviceId, processed) ==
    [room |-> userId, deviceId |-> deviceId, changes |-> processed]

\* router.post('/push'): the transaction around the three loops, the device
\* timestamp, the commit and the response.  failAt in 1..Size(changes) is a
\* storage error on that change, Size(changes) + 1 one on the device update
\* or the commit; either way the catch block aborts the transaction and
\* answers 500.  attempt tells a first send (1) from a re-send (2).
Push(userId, deviceId, changes, failAt, attempt) ==
    /\ LET st == ProcessChanges(changes, userId, deviceId, store, now, failAt)
           committed == ~st.threw /\ failAt <= Size(changes)
       IN IF committed
          THEN /\ store' = st.tx
               /\ devices' = UpdateDeviceTimestamp(devices, userId, deviceId, now)
               /\ last' = [op |-> "push", userId |-> userId, deviceId |-> deviceId,
                           changes |-> changes, failAt |-> failAt, attempt |-> attempt,
                           status |-> 200,
                           conflicts |-> st.conflicts, processed |-> st.processed,
                           emitted |-> <<SyncUpdate(userId, deviceId, st.processed)>>]
          ELSE /\ store' = st.db
               /\ devices' = devices
               /\ last' = [op |-> "push", userId |-> userId, deviceId |-> deviceId,
                           changes |-> changes, failAt |-> failAt, attempt |-> attempt,
                           status |-> 500, emitted |-> <<>>]
    /\ ops' = ops + 1
    /\ UNCHANGED now

(***************************** concurrent pushes ***************************)
\* The push handler awaits each storage call, so two requests interleave at
\* those calls.  A push of one Expense change is taken in three steps: the
\* start of the transaction with the findById of processSyncChange, the save,
\* and the commit with the response.  txns[deviceId] is the push of a device:
\* its request, the snapshot its transaction reads from, its position (pc),
\* and, once it is done, its response.

\* a store that lets every write of a transaction through
WriteConflictNever(db, snapshot, others, id) == FALSE

\* The store's rule for a write inside a transaction (session.startTransaction
\* and save({ session })): the write is refused with a write conflict when the
\* document was changed by a commit after the transaction's snapshot was
\* taken, or holds an uncommitted write of another transaction.
WriteConflict(db, snapshot, others, id) ==
    \/ (id \in DOMAIN db["Expense"]) # (id \in DOMAIN snapshot["Expense"])
    \/ /\ id \in DOMAIN db["Expense"]
       /\ db["Expense"][id] # snapshot["Expense"][id]
    \/ \E d \in DOMAIN others :
          /\ others[d].pc = "saved"
          /\ others[d].change.id = id
          /\ others[d].st.tx # others[d].snapshot

\* session.startTransaction() and Model.findById(id).session(session): the
\* transaction reads from the store as it is committed now
PushBegin(userId, deviceId, change) ==
    /\ deviceId \notin DOMAIN txns
    /\ txns' = Put(txns, deviceId,
                   [userId |-> userId, change |-> change, snapshot |-> store,
                    pc |-> "read", began |-> ops])
    /\ ops' = ops + 1
    /\ UNCHANGED <<store, devices, now, last, replica, caches>>

\* the conflict check on the document read, and the save when it passes; a
\* refused write is an exception, and the catch block aborts and answers 500
PushSave(deviceId) ==
    /\ deviceId \in DOMAIN txns
    /\ txns[deviceId].pc = "read"
    /\ LET txn == txns[deviceId]
           st == Collect("Expense",
                         processSyncChange("Expense", txn.change, txn.userId, deviceId,
                                           StartPush(txn.snapshot), now))
           others == [d \in (DOMAIN txns) \ {deviceId} |-> txns[d]]
       IN IF st.tx # txn.snapshot /\ WriteConflict(store, txn.snapshot, others, txn.change.id)
          THEN txns' = Put(txns, deviceId,
                           Spread(txn, [pc |-> "done", status |-> 500, ended |-> ops]))
          ELSE txns' = Put(txns, deviceId, Spread(txn, [pc |-> "saved", st |-> st]))
    /\ ops' = ops + 1
    /\ UNCHANGED <<store, devices, now, last, replica, caches>>

\* session.commitTransaction() and res.json({success, conflicts, processed})
PushCommit(deviceId) ==
    /\ deviceId \in DOMAIN txns
    /\ txns[deviceId].pc = "saved"
    /\ LET txn == txns[deviceId]
           id == txn.change.id
       IN /\ store' = IF txn.st.tx # txn.snapshot
                      THEN [store EXCEPT !["Expense"] = Put(@, id, txn.st.tx["Expense"][id])]
                      ELSE store
          /\ txns' = Put(txns, deviceId,
                         Spread(txn, [pc |-> "done", status |-> 200, ended |-> ops,
                                      conflicts |-> txn.st.conflicts,
                                      processed |-> txn.st.processed]))
    /\ devices' = UpdateDeviceTimestamp(devices, txns[deviceId].userId, deviceId, now)
    /\ ops' = ops + 1
    /\ UNCHANGED <<now, last, replica, caches>>

(***************************** resolve-conflicts ***************************)
localPreferredFields ==
    {"description", "amount", "category", "notes", "tags", "name", "color", "icon", "keywords"}

\* the spread of the two arrays without the Set
DedupKeepsAll(seq) == seq

\* [...new Set(seq)]: the first occurrence of each element, in order
RECURSIVE Dedup(_)
Dedup(seq) ==
    IF seq = <<>> THEN <<>>
    ELSE LET front == Dedup(SubSeq(seq, 1, Len(seq) - 1))
             x == seq[Len(seq)]
         IN IF \E i \in 1..Len(front) : front[i] = x THEN front ELSE Append(front, x)

\* a value of a field that JavaScript takes for false in a condition: the
\* empty string, the number 0; an array never is
Falsy(f, v) ==
    CASE f = "amount" -> v = 0
      [] f \in {"tags", "keywords"} -> FALSE
      [] OTHER -> v = ""

\* mergeConflictData with if (localData[field]) for
\* if (localData[field] !== undefined)
mergeConflictDataIfTruthy(localData, remoteData) ==
    LET wins == {f \in (DOMAIN localData) \cap localPreferredFields : ~Falsy(f, localData[f])}
        merged == [f \in (DOMAIN remoteData) \cup wins |->
                      IF f \in wins THEN localData[f] ELSE remoteData[f]]
        unionOf(f, m) ==
            IF f \in DOMAIN localData /\ f \in DOMAIN remoteData
            THEN [m EXCEPT ![f] = Dedup(localData[f] \o remoteData[f])]
            ELSE m
    IN unionOf("keywords", unionOf("tags", merged))

\* mergeConflictData(localData, remoteData)
mergeConflictData(localData, remoteData) ==
    LET merged == [f \in (DOMAIN remoteData) \cup ((DOMAIN localData) \cap localPreferredFields) |->
                      IF f \in (DOMAIN localData) \cap localPreferredFields
                      THEN localData[f] ELSE remoteData[f]]
        unionOf(f, m) ==
            IF f \in DOMAIN localData /\ f \in DOMAIN remoteData
            THEN [m EXCEPT ![f] = Dedup(localData[f] \o remoteData[f])]
            ELSE m
    IN unionOf("keywords", unionOf("tags", merged))

\* Model.findByIdAndUpdate(id, {...finalData, 'sync.conflictResolution.
\* hasConflict': false, 'sync.conflictResolution.resolvedAt': new Date()},
\* {new: true, session, upsert: true}): the schema's paths named by finalData
\* are set, no save hook runs; a missing document is inserted with the
\* schema's defaults
FindByIdAndUpdate(db, Model, id, finalData, t) ==
    LET update == Spread(finalData, [hasConflict |-> FALSE])
        doc == IF id \in DOMAIN db[Model]
               THEN [f \in DOMAIN db[Model][id] |->
                        IF f \in DOMAIN update THEN update[f] ELSE db[Model][id][f]]
               ELSE NewDoc(Model, update, t)
    IN [db EXCEPT ![Model] = Put(@, id, doc)]

\* the Model of a conflict's type; anything else is skipped
ModelOfType(type) ==
    CASE type = "expense" -> "Expense"
      [] type = "category" -> "Category"
      [] type = "budget" -> "Budget"
      [] OTHER -> None

\* one turn of the loop with a findByIdAndUpdate that is not given the
\* session: the write reaches the database at once
ResolveOneOutsideSession(conflict, st, t) ==
    LET Model == ModelOfType(conflict.type)
        finalData ==
            CASE conflict.resolution = "local" -> conflict.localData
              [] conflict.resolution = "remote" -> conflict.remoteData
              [] conflict.resolution = "merge" ->
                    mergeConflictData(conflict.localData, conflict.remoteData)
    IN IF Model = None
       THEN st
       ELSE IF Model = "Expense" /\ "syncVersion" \in DOMAIN finalData
       THEN [st EXCEPT !.threw = TRUE]
       ELSE [st EXCEPT
               !.tx = FindByIdAndUpdate(st.tx, Model, conflict.id, finalData, t),
               !.db = FindByIdAndUpdate(st.db, Model, conflict.id, finalData, t),
               !.processed = Append(@, [id |-> conflict.id, type |-> conflict.type,
                                      resolution |-> conflict.resolution])]

\* one turn of the loop of router.post('/resolve-conflicts')
ResolveOne(conflict, st, t) ==
    LET Model == ModelOfType(conflict.type)
        finalData ==
            CASE conflict.resolution = "local" -> conflict.localData
              [] conflict.resolution = "remote" -> conflict.remoteData
              [] conflict.resolution = "merge" ->
                    mergeConflictData(conflict.localData, conflict.remoteData)
    IN IF Model = None
       THEN st
       ELSE IF Model = "Expense" /\ "syncVersion" \in DOMAIN finalData
       THEN \* $set of sync and of sync.conflictResolution.hasConflict in one
            \* update: the store rejects the conflicting paths
            [st EXCEPT !.threw = TRUE]
       ELSE [st EXCEPT
               !.tx = FindByIdAndUpdate(st.tx, Model, conflict.id, finalData, t),
               !.processed = Append(@, [id |-> conflict.id, type |-> conflict.type,
                                      resolution |-> conflict.resolution])]

RECURSIVE ResolveList(_, _, _, _, _)
ResolveList(conflicts, i, st, t, failAt) ==
    IF i > Len(conflicts) \/ st.threw
    THEN st
    ELSE ResolveList(conflicts, i + 1,
            IF failAt = i THEN [st EXCEPT !.threw = TRUE]
            ELSE ResolveOne(conflicts[i], st, t),
            t, failAt)

\* router.post('/resolve-conflicts'): failAt in 1..Len(conflicts) is a
\* storage error on that conflict, Len(conflicts) + 1 one on the commit
ResolveConflicts(userId, conflicts, failAt) ==
    /\ LET st == ResolveList(conflicts, 1, [StartPush(store) EXCEPT !.processed = <<>>], now, failAt)
           committed == ~st.threw /\ failAt <= Len(conflicts)
       IN /\ store' = IF committed THEN st.tx ELSE st.db
          /\ last' = [op |-> "resolve", userId |-> userId, conflicts |-> conflicts,
                      failAt |-> failAt,
                      status |-> IF committed THEN 200 ELSE 500,
                      resolved |-> IF committed THEN st.processed ELSE <<>>]
    /\ ops' = ops + 1
    /\ UNCHANGED <<devices, now>>

\* finalData = mergeConflictData(localData, remoteData), taken by itself
Merge(localData, remoteData) ==
    /\ last' = [op |-> "merge", localData |-> localData, remoteData |-> remoteData,
                status |-> 200, merged |-> mergeConflictData(localData, remoteData)]
    /\ UNCHANGED <<store, devices, now, ops, txns, replica, caches>>

(***************************** device registry *****************************)
\* addDevice without the look-up of an existing entry
addDeviceAlwaysPushes(list, deviceId, t) ==
    Append(list, [deviceId |-> deviceId, lastSyncAt |-> t, isActive |-> TRUE])

\* UserSchema.methods.addDevice
addDevice(list, deviceId, t) ==
    IF \E i \in DOMAIN list : list[i].deviceId = deviceId
    THEN LET k == CHOOSE i \in DOMAIN list :
                    /\ list[i].deviceId = deviceId
                    /\ \A j \in DOMAIN list : list[j].deviceId = deviceId => i <= j
         IN [list EXCEPT ![k] = [@ EXCEPT !.lastSyncAt = t, !.isActive = TRUE]]
    ELSE Append(list, [deviceId |-> deviceId, lastSyncAt |-> t, isActive |-> TRUE])

\* router.post('/register-device')
RegisterDevice(userId, deviceId) ==
    /\ devices' = [devices EXCEPT ![userId] = addDevice(@, deviceId, now)]
    /\ last' = [op |-> "register-device", userId |-> userId, deviceId |-> deviceId,
                status |-> 200]
    /\ ops' = ops + 1
    /\ UNCHANGED <<store, now>>

\* Model.countDocuments({userId, updatedAt: {$gt: lastSync}, isDeleted: false})
\* (isActive: true for Category and Budget)
countDocuments(db, Model, userId, lastSync) ==
    Cardinality({id \in DOMAIN db[Model] :
                    /\ db[Model][id].userId = userId
                    /\ db[Model][id].updatedAt > lastSync
                    /\ IF Model = "Expense"
                       THEN db[Model][id].isDeleted = FALSE
                       ELSE db[Model][id].isActive = TRUE})

\* user.devices.find(d => d.deviceId === deviceId): the positions that hold
\* the device; find takes the first
FindDevice(list, deviceId) == {i \in DOMAIN list : list[i].deviceId = deviceId}

\* router.get('/status')
Status(userId, deviceId) ==
    /\ LET found == FindDevice(devices[userId], deviceId)
       IN IF found = {}
          THEN last' = [op |-> "status", userId |-> userId, deviceId |-> deviceId,
                        status |-> 404]
          ELSE LET device == devices[userId][CHOOSE i \in found : \A j \in found : i <= j]
                   lastSync == device.lastSyncAt
                   expenseCount == countDocuments(store, "Expense", userId, lastSync)
                   categoryCount == countDocuments(store, "Category", userId, lastSync)
                   budgetCount == countDocuments(store, "Budget", userId, lastSync)
               IN last' = [op |-> "status", userId |-> userId, deviceId |-> deviceId,
                           status |-> 200, lastSyncAt |-> lastSync,
                           pendingChanges |-> [expenses |-> expenseCount,
                                               categories |-> categoryCount,
                                               budgets |-> budgetCount],
                           needsSync |-> (expenseCount > 0 \/ categoryCount > 0
                                          \/ budgetCount > 0)]
    /\ ops' = ops + 1
    /\ UNCHANGED <<store, devices, now>>

(***************************** change feed *********************************)
\* since ? new Date(since) : new Date(0); an omitted since is <<>>
SinceDate(since) == IF since = <<>> THEN 0 ELSE since[1]

\* the query with $gte for $gt
FoundInclusive(db, Model, userId, sinceDate) ==
    {id \in DOMAIN db[Model] :
        /\ db[Model][id].userId = userId
        /\ db[Model][id].updatedAt >= sinceDate}

\* Model.find({userId, updatedAt: {$gt: sinceDate}})
Found(db, Model, userId, sinceDate) ==
    {id \in DOMAIN db[Model] :
        /\ db[Model][id].userId = userId
        /\ db[Model][id].updatedAt > sinceDate}

\* .sort({updatedAt: 1}): the found documents in an order of ascending
\* updatedAt; the query names no second key, so documents with the same
\* updatedAt come in any order
SortedByUpdatedAt(db, Model, found) ==
    {s \in [1..Cardinality(found) -> found] :
        /\ \A i, j \in DOMAIN s : i # j => s[i] # s[j]
        /\ \A i, j \in DOMAIN s : i < j => db[Model][s[i]].updatedAt <= db[Model][s[j]].updatedAt}

\* the event the handler maps a document to
ChangeEvent(Model, id, doc) ==
    [id |-> id,
     action |-> IF SoftDeleted(Model, doc) THEN "delete" ELSE "upsert",
     data |-> IF SoftDeleted(Model, doc) THEN <<>> ELSE doc,
     updatedAt |-> doc.updatedAt]

Events(db, Model, order) ==
    [i \in DOMAIN order |-> ChangeEvent(Model, order[i], db[Model][order[i]])]

\* router.get('/changes')
Changes(userId, since) ==
    /\ \E e \in SortedByUpdatedAt(store, "Expense", Found(store, "Expense", userId, SinceDate(since))),
          c \in SortedByUpdatedAt(store, "Category", Found(store, "Category", userId, SinceDate(since))),
          b \in SortedByUpdatedAt(store, "Budget", Found(store, "Budget", userId, SinceDate(since))) :
            last' = [op |-> "changes", userId |-> userId, since |-> since, status |-> 200,
                     changes |-> [Expense |-> Events(store, "Expense", e),
                                  Category |-> Events(store, "Category", c),
                                  Budget |-> Events(store, "Budget", b)]]
    /\ ops' = ops + 1
    /\ UNCHANGED <<store, devices, now>>

(***************************** expense controller **************************)
\* Expense.findOne({_id: id, userId, isDeleted: false})
FindLive(db, userId, id) ==
    /\ id \in DOMAIN db["Expense"]
    /\ db["Expense"][id].userId = userId
    /\ ~db["Expense"][id].isDeleted

\* exports.addExpense: a new document under an id the store assigns
addExpense(userId, description) ==
    /\ \E id \in Ids \ DOMAIN store["Expense"] :
          /\ store' = Save(store, "Expense", id,
                           NewDoc("Expense", [userId |-> userId, description |-> description], now),
                           now)
          /\ last' = [op |-> "addExpense", userId |-> userId, id |-> id, status |-> 201]
    /\ ops' = ops + 1
    /\ UNCHANGED <<devices, now>>

\* exports.updateExpense: every key of the body but userId and _id is
\* assigned, then save()
updateExpense(userId, id, updateData) ==
    /\ IF FindLive(store, userId, id)
       THEN /\ store' = Save(store, "Expense", id,
                    AssignDoc("Expense", store["Expense"][id],
                        [f \in (DOMAIN updateData) \ {"userId"} |-> updateData[f]]),
                    now)
            /\ last' = [op |-> "updateExpense", userId |-> userId, id |-> id, status |-> 200]
       ELSE /\ store' = store
            /\ last' = [op |-> "updateExpense", userId |-> userId, id |-> id, status |-> 404]
    /\ ops' = ops + 1
    /\ UNCHANGED <<devices, now>>

\* exports.deleteExpense
deleteExpense(userId, id) ==
    /\ IF FindLive(store, userId, id)
       THEN /\ store' = Save(store, "Expense", id, softDelete(store["Expense"][id], now), now)
            /\ last' = [op |-> "deleteExpense", userId |-> userId, id |-> id, status |-> 200]
       ELSE /\ store' = store
            /\ last' = [op |-> "deleteExpense", userId |-> userId, id |-> id, status |-> 404]
    /\ ops' = ops + 1
    /\ UNCHANGED <<devices, now>>

\* Expense.updateMany({_id: {$in: expenseIds}, userId, isDeleted: false}, update):
\* no save hook runs
UpdateManyLive(db, userId, expenseIds, update) ==
    [db EXCEPT !["Expense"] =
        [id \in DOMAIN @ |->
            IF id \in expenseIds /\ FindLive(db, userId, id)
            THEN [f \in DOMAIN @[id] |-> IF f \in DOMAIN update THEN update[f] ELSE @[id][f]]
            ELSE @[id]]]

\* exports.bulkUpdateExpenses: {...updateData, updatedAt: new Date()}
bulkUpdateExpenses(userId, expenseIds, updateData) ==
    /\ expenseIds # {}
    /\ store' = UpdateManyLive(store, userId, expenseIds,
                               Spread(updateData, [updatedAt |-> now]))
    /\ last' = [op |-> "bulkUpdateExpenses", userId |-> userId, ids |-> expenseIds,
                status |-> 200]
    /\ ops' = ops + 1
    /\ UNCHANGED <<devices, now>>

\* exports.bulkDeleteExpenses: {isDeleted: true, deletedAt: new Date(), updatedAt: new Date()}
bulkDeleteExpenses(userId, expenseIds) ==
    /\ expenseIds # {}
    /\ store' = UpdateManyLive(store, userId, expenseIds,
                               [isDeleted |-> TRUE, deletedAt |-> now, updatedAt |-> now])
    /\ last' = [op |-> "bulkDeleteExpenses", userId |-> userId, ids |-> expenseIds,
                status |-> 200]
    /\ ops' = ops + 1
    /\ UNCHANGED <<devices, now>>

(***************************** clock ***************************************)
\* time passes between two requests
Tick ==
    /\ now < MaxTime
    /\ now' = now + 1
    /\ UNCHANGED <<store, devices, last, ops>>

(***************************** requests ************************************)
\* the ids a client may name: two Expenses, one Category, one Budget
IdsOf(Model) == IF Model = "Expense" THEN Ids ELSE {1}

\* a change without data (a delete names only the id)
NoData == <<>>

\* payloads of a pushed upsert: a partial edit, and a whole document as a
\* device holds it after a pull (owner, flags, dates and sync object included)
PushData ==
    {[description |-> "a"],
     [description |-> "b", userId |-> "u2", isDeleted |-> FALSE, isActive |-> TRUE,
      updatedAt |-> 1, syncVersion |-> 1, deviceId |-> "dB"]}

ChangesOf(Model, payloads) ==
    {[id |-> id, action |-> "delete", data |-> NoData, clientTimestamp |-> ts] :
        id \in IdsOf(Model), ts \in ClientTimes}
    \cup
    {[id |-> id, action |-> "upsert", data |-> data, clientTimestamp |-> ts] :
        id \in IdsOf(Model), data \in payloads, ts \in ClientTimes}

\* the bodies of a push: at most max changes over the three lists
PushBodies(max, payloads) ==
    UNION {{[expenses |-> e, categories |-> c, budgets |-> b] :
                e \in [1..n[1] -> ChangesOf("Expense", payloads)],
                c \in [1..n[2] -> ChangesOf("Category", payloads)],
                b \in [1..n[3] -> ChangesOf("Budget", payloads)]} :
           n \in {m \in (0..max) \X (0..max) \X (0..max) :
                    m[1] + m[2] + m[3] <= max}}

\* localData / remoteData of a conflict sent for resolution
ResolveData ==
    {[description |-> "a"],
     [description |-> "b", updatedAt |-> 1]}

\* one conflict per resolve-conflicts call; the side a strategy does not read
\* is the same as the one it reads
ResolveBodies ==
    {<<[id |-> id, type |-> LowerName(Model), resolution |-> r,
        localData |-> l, remoteData |-> IF r = "merge" THEN rd ELSE l]>> :
        Model \in Models, id \in {1}, r \in {"local", "remote", "merge"},
        l \in ResolveData, rd \in ResolveData}

\* request bodies of the expense controller
UpdateData == {[description |-> "a"], [description |-> "b"]}

Sinces == {<<>>} \cup {<<t>> : t \in ClientTimes}

(***************************** specification *******************************)
Init ==
    /\ store = [Model \in Models |-> <<>>]
    /\ devices = [u \in Users |-> <<>>]
    /\ now = 1
    /\ last = [op |-> "none", status |-> 0]
    /\ ops = 0
    /\ txns = <<>>
    /\ replica = <<>>
    /\ caches = [api |-> {}, offline |-> <<>>]

\* the response of the request handled last reaches its client
Deliver ==
    /\ last.op # "none"
    /\ last' = [op |-> "none", status |-> 0]
    /\ UNCHANGED <<store, devices, now, ops>>

\* no response is on its way
Quiescent == last.op = "none"

\* a client that got no answer to its push sends the same body again
Retry ==
    /\ last.op = "push"
    /\ last.status = 200
    /\ Push(last.userId, last.deviceId, last.changes, 0, 2)

\* the device that was reported a conflict sends it back with a resolution:
\* id, type, localData and remoteData as the push response gave them
ResolveReported ==
    /\ last.op = "push"
    /\ last.status = 200
    /\ \E k \in DOMAIN last.conflicts, r \in {"local", "remote", "merge"} :
          ResolveConflicts(last.userId,
                           <<Spread(last.conflicts[k], [resolution |-> r])>>, 0)

Next ==
    /\ UNCHANGED <<txns, replica, caches>>
    /\ \/ Tick
       \/ Deliver
       \/ ops < MaxOps /\ Retry
       \/ ops < MaxOps /\ ResolveReported
       \/ /\ ops < MaxOps
          /\ Quiescent
          /\ \/ \E u \in Users, d \in Devices : RegisterDevice(u, d)
             \/ \E u \in Users, d \in Devices, body \in PushBodies(1, PushData) :
                   Push(u, d, body, 0, 1)
             \/ \E u \in Users, c \in ResolveBodies : ResolveConflicts(u, c, 0)
             \/ \E u \in Users, since \in Sinces : Changes(u, since)
             \/ \E u \in Users, desc \in {"a", "b"} : addExpense(u, desc)
             \/ \E u \in Users, id \in Ids, data \in UpdateData : updateExpense(u, id, data)
             \/ \E u \in Users, id \in Ids : deleteExpense(u, id)
             \/ \E u \in Users, ids \in SUBSET Ids, data \in UpdateData :
                   bulkUpdateExpenses(u, ids, data)
             \/ \E u \in Users, ids \in SUBSET Ids : bulkDeleteExpenses(u, ids)

Spec == Init /\ [][Next]_vars

\* pushes of several changes, with storage errors
NextBatch ==
    /\ UNCHANGED <<txns, replica, caches>>
    /\ \/ Tick
       \/ Deliver
       \/ /\ ops < MaxBatchOps
          /\ Quiescent
          /\ \/ \E u \in Users, d \in Devices : RegisterDevice(u, d)
             \/ \E u \in Users, d \in Devices,
                   body \in PushBodies(MaxBatch, {[description |-> "a"]}) :
                   \E failAt \in 0..(Size(body) + 1) : Push(u, d, body, failAt, 1)

SpecBatch == Init /\ [][NextBatch]_vars

\* the device registry and the status route next to a few writes
NextStatus ==
    /\ UNCHANGED <<txns, replica, caches>>
    /\ \/ Tick
       \/ Deliver
       \/ /\ ops < MaxStatusOps
          /\ Quiescent
          /\ \/ \E u \in Users, d \in Devices : RegisterDevice(u, d)
             \/ \E u \in Users, d \in Devices : Status(u, d)
             \/ \E u \in Users : addExpense(u, "a")
             \/ \E u \in Users, id \in Ids : deleteExpense(u, id)

SpecStatus == Init /\ [][NextStatus]_vars

\* the changes two racing devices push: one Expense, any action
RaceChanges ==
    {c \in ChangesOf("Expense", {[description |-> "a"], [description |-> "b"]}) : c.id = 1}

\* a push handled alone first, then the pushes of the two devices of one
\* user, step by step
NextRace ==
    \/ Tick /\ UNCHANGED <<txns, replica, caches>>
    \/ Deliver /\ UNCHANGED <<txns, replica, caches>>
    \/ /\ ops < MaxRaceSetup
       /\ Quiescent
       /\ txns = <<>>
       /\ \E d \in Devices, c \in RaceChanges :
             Push("u1", d, [expenses |-> <<c>>, categories |-> <<>>, budgets |-> <<>>], 0, 1)
       /\ UNCHANGED <<txns, replica, caches>>
    \/ /\ ops < MaxRaceOps
       /\ Quiescent
       /\ \/ \E d \in Devices, c \in RaceChanges : PushBegin("u1", d, c)
          \/ \E d \in Devices : PushSave(d)
          \/ \E d \in Devices : PushCommit(d)

SpecRace == Init /\ [][NextRace]_vars

\* a field of a payload: <<>> when the payload does not define it, <<v>>
\* when it defines it as v
Payload(description, amount, updatedAt, tags, keywords) ==
    LET given == [description |-> description, amount |-> amount,
                  updatedAt |-> updatedAt, tags |-> tags, keywords |-> keywords]
    IN [f \in {g \in DOMAIN given : given[g] # <<>>} |-> given[f][1]]

\* the two sides of a merge: user-authored fields (an empty description and
\* a zero amount among them), a system field, and the two array fields
MergeData ==
    {Payload(d, a, u, t, k) :
        d \in {<<>>, <<"">>, <<"a">>},
        a \in {<<>>, <<0>>, <<40>>, <<50>>},
        u \in {<<>>, <<1>>, <<2>>},
        t \in {<<>>, << <<>> >>, << <<"a", "b">> >>, << <<"b", "c">> >>, << <<"a", "a">> >>},
        k \in {<<>>, << <<"k", "k">> >>}}

NextMerge ==
    \/ Deliver /\ UNCHANGED <<txns, replica, caches>>
    \/ /\ Quiescent
       /\ \E localData \in MergeData, remoteData \in MergeData : Merge(localData, remoteData)

SpecMerge == Init /\ [][NextMerge]_vars

(***************************** a device's sync round ***********************)
\* The device dA of user u1 keeps a copy of the user's Expenses.  replica is
\* <<>> until its first pull, then [pc, copy]: copy maps an id to the state
\* the device holds of that record, in the form of the change event that
\* carries it (action, data, updatedAt).

\* the device takes the events of a changes response, one by one
RECURSIVE ApplyEvents(_, _, _)
ApplyEvents(copy, events, i) ==
    IF i > Len(events)
    THEN copy
    ELSE ApplyEvents(Put(copy, events[i].id, events[i]), events, i + 1)

\* the device takes what its own push processed: an upserted document as
\* the response carries it, a deletion as a tombstone of the response's time
RECURSIVE ApplyProcessed(_, _, _, _)
ApplyProcessed(copy, items, i, t) ==
    IF i > Len(items)
    THEN copy
    ELSE ApplyProcessed(
            Put(copy, items[i].id,
                IF items[i].action = "upsert"
                THEN ChangeEvent("Expense", items[i].id, items[i].doc)
                ELSE [id |-> items[i].id, action |-> "delete", data |-> <<>>,
                      updatedAt |-> t]),
            items, i + 1, t)

\* the high-water mark stored for the device: lastSyncAt of its entry
HighWaterMark(userId, deviceId) ==
    LET found == FindDevice(devices[userId], deviceId)
    IN devices[userId][CHOOSE i \in found : TRUE].lastSyncAt

\* the device has pushed and not yet pulled
InRound == IF replica = <<>> THEN FALSE ELSE replica.pc = "pushed"

\* the first pull of a registered device: since omitted, the whole feed
FullPull ==
    /\ replica = <<>>
    /\ FindDevice(devices["u1"], "dA") # {}
    /\ Changes("u1", <<>>)
    /\ replica' = [pc |-> "idle", copy |-> ApplyEvents(<<>>, last'.changes.Expense, 1)]
    /\ UNCHANGED <<txns, caches>>

\* first half of a round: a push of the device; the round goes on when the
\* push is answered 200 with no conflicts
RoundPush(changes) ==
    /\ replica # <<>>
    /\ ~InRound
    /\ Push("u1", "dA", changes, 0, 1)
    /\ replica' = IF last'.status = 200 /\ last'.conflicts = <<>>
                  THEN [pc |-> "pushed",
                        copy |-> ApplyProcessed(replica.copy, last'.processed["Expense"], 1, now)]
                  ELSE [replica EXCEPT !.pc = "idle"]
    /\ UNCHANGED <<txns, caches>>

\* second half: the pull with the stored high-water mark as since
RoundPull ==
    /\ InRound
    /\ Changes("u1", <<HighWaterMark("u1", "dA")>>)
    /\ replica' = [pc |-> "synced",
                   copy |-> ApplyEvents(replica.copy, last'.changes.Expense, 1)]
    /\ UNCHANGED <<txns, caches>>

\* what the device dA pushes in a round: nothing, or one Expense change
RoundBodies ==
    {[expenses |-> <<>>, categories |-> <<>>, budgets |-> <<>>]}
    \cup {[expenses |-> <<c>>, categories |-> <<>>, budgets |-> <<>>] : c \in RaceChanges}

\* what the other device sends for resolution: one conflict on Expense 1
RoundResolveBodies == {c \in ResolveBodies : c[1].type = "expense"}

\* the device dA registers once, pulls everything, then makes rounds; the
\* device dB writes before and between the rounds, never inside one
NextRound ==
    \/ Tick /\ UNCHANGED <<txns, replica, caches>>
    \/ Deliver /\ UNCHANGED <<txns, replica, caches>>
    \/ /\ ops < MaxRoundOps
       /\ Quiescent
       /\ \/ /\ devices["u1"] = <<>>
             /\ RegisterDevice("u1", "dA")
             /\ UNCHANGED <<txns, replica, caches>>
          \/ FullPull
          \/ \E body \in RoundBodies : RoundPush(body)
          \/ RoundPull
          \/ /\ ~InRound
             /\ \E c \in RaceChanges :
                   Push("u1", "dB", [expenses |-> <<c>>, categories |-> <<>>, budgets |-> <<>>], 0, 1)
             /\ UNCHANGED <<txns, replica, caches>>
          \/ /\ ~InRound
             /\ \E c \in RoundResolveBodies : ResolveConflicts("u1", c, 0)
             /\ UNCHANGED <<txns, replica, caches>>

SpecRound == Init /\ [][NextRound]_vars

(***************************** request validation **************************)
\* A request body as the JSON parser leaves it.  A value carries its type;
\* a key the body does not have reads as undefined.
Undefined == [type |-> "undefined"]
Null == [type |-> "null"]
Str(s) == [type |-> "string", str |-> s]
Num(n) == [type |-> "number", num |-> n]
Arr(items) == [type |-> "array", items |-> items]
Obj(fields) == [type |-> "object", fields |-> fields]

\* the value at a field of a value: undefined unless the value is an object
\* that has the field
Get(value, field) ==
    IF value.type = "object"
    THEN IF field \in DOMAIN value.fields THEN value.fields[field] ELSE Undefined
    ELSE Undefined

\* the text the validators test: a string as it is, null and undefined as
\* the empty text, a number in digits
toString(value) ==
    CASE value.type = "string" -> value.str
      [] value.type = "number" -> <<"0", "1", "2", "3", "4", "5", "6", "7", "8", "9">>[value.num + 1]
      [] value.type \in {"null", "undefined"} -> ""
      [] OTHER -> "[object Object]"

\* .notEmpty()
notEmpty(value) == toString(value) # ""
\* .isObject(): strict, null and arrays are refused
isObject(value) == value.type = "object"
\* .isArray()
isArray(value) == value.type = "array"
\* .isIn(values)
isIn(value, values) == toString(value) \in values
\* .optional(): the chain is skipped for an undefined value only
optional(value, valid) == value.type = "undefined" \/ valid

\* the instances of conflicts.*: the elements of an array
Wildcard(value) == IF value.type = "array" THEN value.items ELSE <<>>

\* the fields the validators of router.post('/push') refuse, without the
\* check of changes
PushErrorsNoObjectCheck(body) ==
    {f \in {"deviceId", "changes.expenses", "changes.categories", "changes.budgets"} :
        CASE f = "deviceId" -> ~notEmpty(Get(body, "deviceId"))
          [] f = "changes.expenses" ->
                ~optional(Get(Get(body, "changes"), "expenses"),
                          isArray(Get(Get(body, "changes"), "expenses")))
          [] f = "changes.categories" ->
                ~optional(Get(Get(body, "changes"), "categories"),
                          isArray(Get(Get(body, "changes"), "categories")))
          [] f = "changes.budgets" ->
                ~optional(Get(Get(body, "changes"), "budgets"),
                          isArray(Get(Get(body, "changes"), "budgets")))}

\* the fields the validators of router.post('/push') refuse
PushErrors(body) ==
    {f \in {"deviceId", "changes", "changes.expenses", "changes.categories",
            "changes.budgets"} :
        CASE f = "deviceId" -> ~notEmpty(Get(body, "deviceId"))
          [] f = "changes" -> ~isObject(Get(body, "changes"))
          [] f = "changes.expenses" ->
                ~optional(Get(Get(body, "changes"), "expenses"),
                          isArray(Get(Get(body, "changes"), "expenses")))
          [] f = "changes.categories" ->
                ~optional(Get(Get(body, "changes"), "categories"),
                          isArray(Get(Get(body, "changes"), "categories")))
          [] f = "changes.budgets" ->
                ~optional(Get(Get(body, "changes"), "budgets"),
                          isArray(Get(Get(body, "changes"), "budgets")))}

\* the fields the validators of router.post('/resolve-conflicts') refuse
ResolveErrors(body) ==
    LET instances == Wildcard(Get(body, "conflicts"))
    IN {f \in {"conflicts", "conflicts.*.id", "conflicts.*.resolution"} :
        CASE f = "conflicts" -> ~isArray(Get(body, "conflicts"))
          [] f = "conflicts.*.id" ->
                \E i \in DOMAIN instances : ~notEmpty(Get(instances[i], "id"))
          [] f = "conflicts.*.resolution" ->
                \E i \in DOMAIN instances :
                    ~isIn(Get(instances[i], "resolution"), {"local", "remote", "merge"})}

\* changes.expenses && changes.expenses.length > 0, then for ... of: the
\* list the handler walks
ListIn(changes, kind) ==
    IF Get(changes, kind).type = "array" THEN Get(changes, kind).items ELSE <<>>

\* router.post('/push') from the request body on: the validators, then the
\* handler.  Reading changes.expenses of a null or undefined changes throws
\* inside the try block.
PushRequest(userId, body) ==
    IF PushErrors(body) # {}
    THEN /\ last' = [op |-> "push", userId |-> userId, body |-> body, status |-> 400,
                     errors |-> PushErrors(body), emitted |-> <<>>]
         /\ ops' = ops + 1
         /\ UNCHANGED <<store, devices, now>>
    ELSE IF Get(body, "changes").type \in {"null", "undefined"}
    THEN /\ last' = [op |-> "push", userId |-> userId, body |-> body, status |-> 500,
                     emitted |-> <<>>]
         /\ ops' = ops + 1
         /\ UNCHANGED <<store, devices, now>>
    ELSE Push(userId, toString(Get(body, "deviceId")),
              [expenses |-> ListIn(Get(body, "changes"), "expenses"),
               categories |-> ListIn(Get(body, "changes"), "categories"),
               budgets |-> ListIn(Get(body, "changes"), "budgets")], 0, 1)

\* const { id, type, resolution, localData, remoteData } = conflict
ConflictOf(item) ==
    [id |-> Get(item, "id").num, type |-> toString(Get(item, "type")),
     resolution |-> toString(Get(item, "resolution")),
     localData |-> item.fields.localData, remoteData |-> item.fields.remoteData]

\* router.post('/resolve-conflicts') from the request body on
ResolveRequest(userId, body) ==
    IF ResolveErrors(body) # {}
    THEN /\ last' = [op |-> "resolve", userId |-> userId, body |-> body, status |-> 400,
                     errors |-> ResolveErrors(body)]
         /\ ops' = ops + 1
         /\ UNCHANGED <<store, devices, now>>
    ELSE ResolveConflicts(userId,
            [i \in DOMAIN Get(body, "conflicts").items |->
                ConflictOf(Get(body, "conflicts").items[i])], 0)

\* bodies of a push: the deviceId missing, empty, null or given; changes
\* missing, null, a string, an array, or an object whose lists are missing,
\* null, a string, an object or an array
RequestChanges ==
    {c \in ChangesOf("Expense", {[description |-> "a"]}) :
        c.id = 1 /\ c.clientTimestamp = MaxTime}

PushRequestBodies ==
    {Obj([deviceId |-> d, changes |-> c]) :
        d \in {Undefined, Null, Str(""), Str("dA")},
        c \in {Undefined, Null, Str("x"), Arr(<<>>)} \cup
              {Obj([expenses |-> e, categories |-> k, budgets |-> b]) :
                  e \in {Undefined, Null, Str("x"), Obj(<<>>), Arr(<<>>)} \cup
                        {Arr(<<x>>) : x \in RequestChanges},
                  k \in {Undefined, Str("x"), Arr(<<>>)},
                  b \in {Undefined, Str("x"), Arr(<<>>)}}}

\* bodies of a resolve-conflicts call: conflicts missing, null, a string, an
\* object, or an array of at most two conflicts on Expense 1, whose id and
\* resolution may be missing and whose resolution may be no strategy
RequestConflicts ==
    {Obj([id |-> id, type |-> Str("expense"), resolution |-> r,
          localData |-> [description |-> "b"], remoteData |-> [description |-> "a"]]) :
        id \in {Undefined, Num(1)},
        r \in {Undefined, Str(""), Str("theirs"), Str("local"), Str("remote"), Str("merge")}}

ResolveRequestBodies ==
    {Obj([conflicts |-> c]) :
        c \in {Undefined, Null, Str("x"), Obj(<<>>), Arr(<<>>)} \cup
              {Arr(<<x>>) : x \in RequestConflicts} \cup
              {Arr(<<x, y>>) : x \in RequestConflicts, y \in RequestConflicts}}

\* a request reaches the server: the body is in flight until its handler runs
Receive(route, userId, body) ==
    /\ last' = [op |-> "request", route |-> route, userId |-> userId, body |-> body,
                status |-> 0]
    /\ UNCHANGED <<store, devices, now, ops>>

\* the request in flight is one for route
Received(route) == last.op = "request" /\ last.route = route

NextRequests ==
    \/ Tick /\ UNCHANGED <<txns, replica, caches>>
    \/ last.op # "request" /\ Deliver /\ UNCHANGED <<txns, replica, caches>>
    \/ /\ ops < MaxRequestOps
       /\ Quiescent
       /\ UNCHANGED <<txns, replica, caches>>
       /\ \/ RegisterDevice("u1", "dA")
          \/ \E body \in PushRequestBodies : Receive("push", "u1", body)
          \/ \E body \in ResolveRequestBodies : Receive("resolve-conflicts", "u1", body)
    \/ Received("push") /\ PushRequest(last.userId, last.body) /\ UNCHANGED <<txns, replica, caches>>
    \/ /\ Received("resolve-conflicts")
       /\ ResolveRequest(last.userId, last.body)
       /\ UNCHANGED <<txns, replica, caches>>

SpecRequests == Init /\ [][NextRequests]_vars

(***************************** resolve-conflicts calls *********************)
\* the pushes that fill the store before conflicts are resolved: a create
\* or a delete of Expense 1 or Category 1, never a conflict
SeedChanges(Model) ==
    {c \in ChangesOf(Model, {[description |-> "a"]}) :
        c.id = 1 /\ c.clientTimestamp = MaxTime}

SeedBodies ==
    {[expenses |-> <<c>>, categories |-> <<>>, budgets |-> <<>>] : c \in SeedChanges("Expense")}
    \cup
    {[expenses |-> <<>>, categories |-> <<c>>, budgets |-> <<>>] : c \in SeedChanges("Category")}

\* a conflict of a resolve-conflicts body: a stored or an unknown id, a known
\* or an unknown type, any strategy; the local side is a partial edit or a
\* document with its flags, the remote side the record as it was reported
CallConflicts ==
    {[id |-> id, type |-> type, resolution |-> r, localData |-> l,
      remoteData |-> [description |-> "a", updatedAt |-> 1]] :
        id \in Ids, type \in {"expense", "category", "other"},
        r \in {"local", "remote", "merge"},
        l \in {[description |-> "b"],
               [description |-> "b", isDeleted |-> FALSE, isActive |-> TRUE]}}

\* one or two conflicts per call
CallBodies ==
    {<<c>> : c \in CallConflicts} \cup {<<c, d>> : c \in CallConflicts, d \in CallConflicts}

\* where a storage error may hit a call: on the update of a conflict of a
\* known type, or on the commit
FailPoints(conflicts) ==
    {0, Len(conflicts) + 1}
    \cup {i \in DOMAIN conflicts : ModelOfType(conflicts[i].type) # None}

\* MaxSeedOps pushes, then the resolve-conflicts calls
NextResolve ==
    \/ Tick /\ UNCHANGED <<txns, replica, caches>>
    \/ Deliver /\ UNCHANGED <<txns, replica, caches>>
    \/ /\ ops < MaxSeedOps
       /\ Quiescent
       /\ \E body \in SeedBodies : Push("u1", "dA", body, 0, 1)
       /\ UNCHANGED <<txns, replica, caches>>
    \/ /\ MaxSeedOps <= ops
       /\ ops < MaxResolveOps
       /\ Quiescent
       /\ \E body \in CallBodies : \E failAt \in FailPoints(body) :
             ResolveConflicts("u1", body, failAt)
       /\ UNCHANGED <<txns, replica, caches>>

SpecResolve == Init /\ [][NextResolve]_vars

(***************************** changes without a date **********************)
\* one change of Expense 1 or Category 1 whose clientTimestamp is a date, is
\* missing or is no date
TimestampChanges(Model) ==
    {[id |-> 1, action |-> a, clientTimestamp |-> ts,
      data |-> IF a = "delete" THEN NoData ELSE [description |-> d]] :
        a \in {"upsert", "delete"}, ts \in ClientTimes \cup {InvalidDate}, d \in {"a", "b"}}

TimestampBodies ==
    {[expenses |-> <<c>>, categories |-> <<>>, budgets |-> <<>>] : c \in TimestampChanges("Expense")}
    \cup
    {[expenses |-> <<>>, categories |-> <<c>>, budgets |-> <<>>] : c \in TimestampChanges("Category")}

NextTimestamp ==
    \/ Tick /\ UNCHANGED <<txns, replica, caches>>
    \/ Deliver /\ UNCHANGED <<txns, replica, caches>>
    \/ /\ ops < MaxTimestampOps
       /\ Quiescent
       /\ \E d \in Devices, body \in TimestampBodies : Push("u1", d, body, 0, 1)
       /\ UNCHANGED <<txns, replica, caches>>

SpecTimestamp == Init /\ [][NextTimestamp]_vars

(***************************** service worker ******************************)
\* The service worker of the page. A request is a record of its method, its
\* url, its body (<<>> when it has none, <<b>> for the body b) and bodyUsed.
\* caches.api holds the urls whose GET response is cached, caches.offline
\* the stored offline requests by key. Date.now() of the browser is now.
Methods == {"GET", "POST", "PUT", "DELETE"}

Urls == {"/api/expenses", "/api/expenses/1"}

\* the values Math.random() yields; a key is never drawn twice
Randoms == {1, 2}

\* what the network does with a fetch: an ok response, a response that is
\* not ok, or a network error
Outcomes == {"ok", "notOk", "networkError"}

\* the requests of the page to /api/: POST and PUT carry a body
ApiRequests ==
    {[method |-> m, url |-> u, body |-> IF m \in {"POST", "PUT"} THEN <<b>> ELSE <<>>,
      bodyUsed |-> FALSE] : m \in Methods, u \in Urls, b \in {"a", "b"}}

\* the request after fetch(request): a body it carries has been handed to
\* the network and is used
Fetched(request) == [request EXCEPT !.bodyUsed = (request.body # <<>>)]

\* request.text(): rejects when the body is used, "" when there is no body
text(request) ==
    IF request.bodyUsed
    THEN [threw |-> TRUE]
    ELSE [threw |-> FALSE, value |-> IF request.body = <<>> THEN <<"">> ELSE request.body]

\* cache.match(request): only a GET request matches a cached response
Match(api, request) == request.method = "GET" /\ request.url \in api

\* `offline-request-${Date.now()}-${Math.random()}`
OfflineKey(t, random) == <<t, random>>

\* storeOfflineRequest: the offline cache afterwards; an error on the way is
\* caught and logged, and nothing is stored
storeOfflineRequest(offline, request, t, random) ==
    LET body == IF request.method # "GET" THEN text(request)
                ELSE [threw |-> FALSE, value |-> <<>>]
    IN  IF body.threw
        THEN offline
        ELSE Put(offline, OfflineKey(t, random),
                 [url |-> request.url, method |-> request.method,
                  body |-> body.value, timestamp |-> t])

\* handleApiRequest: network first, then the api cache, then the queue
HandleApiRequest(request, outcome, random) ==
    LET sent == Fetched(request)
        cached == Match(caches.api, sent)
        queued == /\ outcome = "networkError"
                  /\ ~cached
                  /\ request.method \in {"POST", "PUT", "DELETE"}
    IN  /\ OfflineKey(now, random) \notin DOMAIN caches.offline
        /\ caches' = IF outcome = "ok"
                     THEN IF request.method = "GET"
                          THEN [caches EXCEPT !.api = @ \cup {request.url}]
                          ELSE caches
                     ELSE IF queued
                          THEN [caches EXCEPT
                                  !.offline = storeOfflineRequest(@, sent, now, random)]
                          ELSE caches
        /\ last' = [op |-> "fetch", request |-> request, outcome |-> outcome,
                    response |-> IF outcome = "ok" THEN "network"
                                 ELSE IF cached THEN "cached"
                                 ELSE IF queued THEN "queued"
                                 ELSE "unavailable",
                    status |-> IF outcome # "ok" /\ ~cached /\ ~queued THEN 503 ELSE 200]
        /\ ops' = ops + 1
        /\ UNCHANGED <<store, devices, now, txns, replica>>

\* syncOfflineRequests: the offline cache afterwards, outcomes[key] being
\* what the network did with the replay of that stored request
syncOfflineRequests(offline, outcomes) ==
    [key \in {k \in DOMAIN offline : outcomes[k] # "ok"} |-> offline[key]]

\* a sync or periodicsync event with the tag background-sync
SyncOfflineRequests(outcomes) ==
    /\ caches' = [caches EXCEPT !.offline = syncOfflineRequests(@, outcomes)]
    /\ last' = [op |-> "sync", outcomes |-> outcomes, status |-> 0]
    /\ ops' = ops + 1
    /\ UNCHANGED <<store, devices, now, txns, replica>>

NextOffline ==
    \/ Tick /\ UNCHANGED <<txns, replica, caches>>
    \/ Deliver /\ UNCHANGED <<txns, replica, caches>>
    \/ /\ ops < MaxOfflineOps
       /\ Quiescent
       /\ \E request \in ApiRequests, outcome \in Outcomes, random \in Randoms :
              HandleApiRequest(request, outcome, random)
    \/ /\ ops < MaxOfflineOps
       /\ Quiescent
       /\ \E outcomes \in [DOMAIN caches.offline -> Outcomes] :
              SyncOfflineRequests(outcomes)

SpecOffline == Init /\ [][NextOffline]_vars

(***************************** properties **********************************)
\* this step is the handling of a push
PushStep == last'.op = "push" /\ ops' = ops + 1

\* this step is the handling of a push sent a second time
RetryStep == PushStep /\ last'.attempt = 2

\* the list of a push body that holds the changes of a Model
ListOf(changes, Model) ==
    CASE Model = "Expense" -> changes.expenses
      [] Model = "Category" -> changes.categories
      [] Model = "Budget" -> changes.budgets

\* no other change of the list names the record of change i
OnlyTouch(list, i) == \A j \in DOMAIN list : j # i => list[j].id # list[i].id

\* how many entries of a list name the record id
Naming(list, id) == Cardinality({k \in DOMAIN list : list[k].id = id})

\* the conflicts of a response that are about a Model
ConflictsOf(conflicts, Model) ==
    SelectSeq(conflicts, LAMBDA c : c.type = LowerName(Model))

\* C1 (conflict detection): when a pushed change names an existing record
\* whose stored updatedAt is strictly later than the change's clientTimestamp,
\* the answered push carries a conflict for that change with the change's
\* data as localData, the stored record as remoteData and the reason
\* concurrent_modification (upsert) or newer_version_exists (delete), no
\* processed item for it, and the stored record is left as it was.
C1_ConflictDetection ==
    [][PushStep =>
        \A Model \in Models : \A i \in DOMAIN ListOf(last'.changes, Model) :
            LET list == ListOf(last'.changes, Model)
                ch == list[i]
            IN (/\ OnlyTouch(list, i)
                /\ ch.id \in DOMAIN store[Model]
                /\ store[Model][ch.id].updatedAt > ch.clientTimestamp)
               => /\ ch.id \in DOMAIN store'[Model]
                  /\ store'[Model][ch.id] = store[Model][ch.id]
                  /\ last'.status = 200 =>
                        /\ \E k \in DOMAIN last'.conflicts :
                              last'.conflicts[k] =
                                 [id |-> ch.id, type |-> LowerName(Model),
                                  localData |-> ch.data,
                                  remoteData |-> store[Model][ch.id],
                                  reason |-> IF ch.action = "delete"
                                             THEN "newer_version_exists"
                                             ELSE "concurrent_modification"]
                        /\ Naming(last'.processed[Model], ch.id) = 0
    ]_vars

\* a push was answered with a conflict on an upsert, the record still what
\* the conflict shows as remoteData
C1_Witness ==
    /\ last.op = "push"
    /\ last.status = 200
    /\ \E k \in DOMAIN last.conflicts :
          /\ last.conflicts[k].reason = "concurrent_modification"
          /\ last.conflicts[k].type = "expense"
          /\ store["Expense"][last.conflicts[k].id] = last.conflicts[k].remoteData
          /\ last.conflicts[k].remoteData.updatedAt > last.changes.expenses[1].clientTimestamp

\* C2 (safe update): an upsert that names an existing record whose updatedAt
\* is not later than the clientTimestamp is applied, whichever the kind of
\* the record: the push is answered 200, the record holds the data's
\* description, its sync.deviceId is the pushing device and its
\* sync.syncVersion is one more than before.
C2_SafeUpdate ==
    [][PushStep /\ last'.failAt = 0 =>
        \A Model \in Models : \A i \in DOMAIN ListOf(last'.changes, Model) :
            LET list == ListOf(last'.changes, Model)
                ch == list[i]
                old == store[Model][ch.id]
                new == store'[Model][ch.id]
            IN (/\ Len(list) = Size(last'.changes)
                /\ OnlyTouch(list, i)
                /\ ch.action = "upsert"
                /\ ch.id \in DOMAIN store[Model]
                /\ store[Model][ch.id].updatedAt <= ch.clientTimestamp)
               => /\ last'.status = 200
                  /\ new.description = ch.data.description
                  /\ "syncVersion" \in DOMAIN new
                  /\ new.deviceId = last'.deviceId
                  /\ new.syncVersion = old.syncVersion + 1
    ]_vars

C4_PushAtomicity ==
    [][PushStep =>
        /\ last'.failAt > 0 => last'.status = 500
        /\ last'.status # 200 => store' = store /\ devices' = devices
    ]_vars

\* a push of a registered device failed after its first change had created a
\* record inside the transaction; the record is not in the store
C4_Witness ==
    /\ last.op = "push"
    /\ last.status = 500
    /\ last.failAt >= 2
    /\ \E i \in DOMAIN devices[last.userId] :
          devices[last.userId][i].deviceId = last.deviceId
    /\ last.changes.expenses # <<>>
    /\ last.changes.expenses[1].action = "upsert"
    /\ last.changes.expenses[1].id \notin DOMAIN store["Expense"]

C6_UpdatedAtMonotonic ==
    [][\A Model \in Models : \A id \in DOMAIN store[Model] :
          /\ id \in DOMAIN store'[Model]
          /\ store'[Model][id].updatedAt >= store[Model][id].updatedAt
          /\ store'[Model][id] # store[Model][id] => store'[Model][id].updatedAt = now
    ]_vars

\* C7 (syncVersion): a record has sync.syncVersion 1 when it is created, and
\* every request that changes it (an update, a delete, a conflict
\* resolution) raises its sync.syncVersion by exactly one.
C7_SyncVersion ==
    [][\A Model \in Models : \A id \in DOMAIN store'[Model] :
          LET new == store'[Model][id]
              old == store[Model][id]
          IN /\ "syncVersion" \in DOMAIN new
             /\ IF id \in DOMAIN store[Model]
                THEN new # old => new.syncVersion = old.syncVersion + 1
                ELSE new.syncVersion = 1
    ]_vars

\* C8 (change-feed selection): the events of a changes response are, for
\* each kind, one event for each record of the asking user whose updatedAt is
\* strictly greater than since (every record of the user when since is
\* omitted) and no other; a soft-deleted record gives action delete with no
\* data, any other record action upsert with the record as data.
C8_ChangeFeedSelection ==
    last.op = "changes" =>
        \A Model \in Models :
            LET ev == last.changes[Model]
                mine == {id \in DOMAIN store[Model] : store[Model][id].userId = last.userId}
                want == IF last.since = <<>>
                        THEN mine
                        ELSE {id \in mine : store[Model][id].updatedAt > last.since[1]}
            IN /\ {ev[i].id : i \in DOMAIN ev} = want
               /\ Len(ev) = Cardinality(want)
               /\ \A i \in DOMAIN ev :
                     LET doc == store[Model][ev[i].id]
                         gone == IF Model = "Expense" THEN doc.isDeleted ELSE ~doc.isActive
                     IN /\ ev[i].updatedAt = doc.updatedAt
                        /\ ev[i].action = IF gone THEN "delete" ELSE "upsert"
                        /\ ev[i].data = IF gone THEN <<>> ELSE doc

\* a changes response that leaves out an Expense of the asking user whose
\* updatedAt equals since, and carries an event for a later one
C8_Witness ==
    /\ last.op = "changes"
    /\ last.since # <<>>
    /\ \E id \in DOMAIN store["Expense"] :
          /\ store["Expense"][id].userId = last.userId
          /\ store["Expense"][id].updatedAt = last.since[1]
          /\ \A i \in DOMAIN last.changes["Expense"] : last.changes["Expense"][i].id # id
    /\ \E i \in DOMAIN last.changes["Expense"] :
          last.changes["Expense"][i].updatedAt > last.since[1]

\* C9 (feed ordering): within each kind the events of a changes response are
\* in ascending updatedAt order, events of equal updatedAt in ascending id
\* order.
C9_FeedOrdering ==
    last.op = "changes" =>
        \A Model \in Models :
            LET ev == last.changes[Model]
            IN \A i, j \in DOMAIN ev :
                  i < j => \/ ev[i].updatedAt < ev[j].updatedAt
                           \/ ev[i].updatedAt = ev[j].updatedAt /\ ev[i].id < ev[j].id

\* C10 (delete propagation): while an Expense stays deleted, a changes query
\* of its user with any since earlier than the time of the delete finds the
\* record and reports it with action delete.
C10_DeletePropagation ==
    \A id \in DOMAIN store["Expense"] :
        LET doc == store["Expense"][id]
        IN (doc.isDeleted /\ doc.deletedAt # Never) =>
              \A since \in 0..(doc.deletedAt - 1) :
                  /\ id \in Found(store, "Expense", doc.userId, since)
                  /\ ChangeEvent("Expense", id, doc).action = "delete"

\* this step is the handling of a resolve-conflicts call
ResolveStep == last'.op = "resolve" /\ ops' = ops + 1

\* C11 (keep-local resolution, end to end): when a push was reported a
\* concurrent_modification conflict on an Expense and the device sends that
\* conflict back with resolution local, the call is answered 200, every field
\* of the record that the device's data names holds the data's value, and the
\* record's sync.conflictResolution.hasConflict is false.
C11_KeepLocal ==
    [][(last.op = "push" /\ last.status = 200 /\ ResolveStep) =>
        \A k \in DOMAIN last'.conflicts :
            LET c == last'.conflicts[k]
            IN (/\ c.type = "expense"
                /\ c.reason = "concurrent_modification"
                /\ c.resolution = "local")
               => /\ last'.status = 200
                  /\ c.id \in DOMAIN store'["Expense"]
                  /\ \A f \in (DOMAIN c.localData) \cap SchemaFields("Expense") :
                        store'["Expense"][c.id][f] = c.localData[f]
                  /\ store'["Expense"][c.id].hasConflict = FALSE
    ]_vars

\* C16 (resolution is a versioned write): every conflict resolution that is
\* applied sets the record's updatedAt to the server time of the resolution
\* and raises its syncVersion, so that a changes query of the record's user
\* with any since earlier than that time finds the record.
C16_ResolutionVersioned ==
    [][(ResolveStep /\ last'.status = 200) =>
        \A k \in DOMAIN last'.resolved :
            LET Model == ModelOfType(last'.resolved[k].type)
                id == last'.resolved[k].id
                new == store'[Model][id]
            IN /\ new.updatedAt = now
               /\ "syncVersion" \in DOMAIN new
               /\ id \in DOMAIN store[Model] => new.syncVersion > store[Model][id].syncVersion
               /\ \A since \in 0..(now - 1) : id \in Found(store', Model, new.userId, since)
    ]_vars

\* C17 (device high-water mark on push): when a push is answered 200, the
\* entry of the pushing device in the user's device list has lastSyncAt equal
\* to the server time of the push, and every other entry is unchanged.
C17_DeviceHighWaterMark ==
    [][(PushStep /\ last'.status = 200) =>
        /\ DOMAIN devices'[last'.userId] = DOMAIN devices[last'.userId]
        /\ \A i \in DOMAIN devices[last'.userId] :
              IF devices[last'.userId][i].deviceId = last'.deviceId
              THEN devices'[last'.userId][i] =
                      [devices[last'.userId][i] EXCEPT !.lastSyncAt = now]
              ELSE devices'[last'.userId][i] = devices[last'.userId][i]
        /\ \A u \in Users \ {last'.userId} : devices'[u] = devices[u]
    ]_vars

\* C18 (sync status): for a registered device, status answers with the
\* device's lastSyncAt and, for each kind, the number of the user's records
\* of that kind whose updatedAt is later than it; needsSync is true exactly
\* when a count is not zero, so it is false only when a changes query with
\* since = lastSyncAt finds nothing.  For a deviceId the user does not have
\* the answer is 404.
C18_SyncStatus ==
    last.op = "status" =>
        LET held == {i \in DOMAIN devices[last.userId] :
                        devices[last.userId][i].deviceId = last.deviceId}
            changed(Model) ==
                {id \in DOMAIN store[Model] :
                    /\ store[Model][id].userId = last.userId
                    /\ store[Model][id].updatedAt > last.lastSyncAt}
        IN IF held = {}
           THEN last.status = 404
           ELSE /\ last.status = 200
                /\ \E i \in held : devices[last.userId][i].lastSyncAt = last.lastSyncAt
                /\ last.pendingChanges.expenses = Cardinality(changed("Expense"))
                /\ last.pendingChanges.categories = Cardinality(changed("Category"))
                /\ last.pendingChanges.budgets = Cardinality(changed("Budget"))
                /\ last.needsSync <=> (\E Model \in Models : changed(Model) # {})
                /\ ~last.needsSync =>
                      \A Model \in Models :
                          Found(store, Model, last.userId, last.lastSyncAt) = {}

\* C19 (device registration): register-device for a deviceId the user has
\* sets that entry's lastSyncAt to now and its active flag, and adds no
\* entry; for a deviceId the user does not have it appends one entry; every
\* other entry stays as it was, and a device list never holds two entries
\* with one deviceId.
C19_DeviceRegistration ==
    [][(last'.op = "register-device" /\ ops' = ops + 1) =>
        LET old == devices[last'.userId]
            new == devices'[last'.userId]
            d == last'.deviceId
            entry == [deviceId |-> d, lastSyncAt |-> now, isActive |-> TRUE]
        IN /\ IF \E i \in DOMAIN old : old[i].deviceId = d
              THEN /\ Len(new) = Len(old)
                   /\ \A i \in DOMAIN old :
                         new[i] = IF old[i].deviceId = d THEN entry ELSE old[i]
              ELSE new = Append(old, entry)
           /\ \A i, j \in DOMAIN new : new[i].deviceId = new[j].deviceId => i = j
           /\ \A u \in Users \ {last'.userId} : devices'[u] = devices[u]
    ]_vars

\* the device registered first was registered again after a second one: its
\* entry is still the first of two, and holds the later time
C19_Witness ==
    /\ last.op = "register-device"
    /\ Len(devices[last.userId]) = 2
    /\ devices[last.userId][1].deviceId = last.deviceId
    /\ devices[last.userId][1].lastSyncAt = 2
    /\ devices[last.userId][2].lastSyncAt = 1

\* the elements of an array
Elems(seq) == {seq[i] : i \in DOMAIN seq}

\* C12 (merge, local-wins fields): in a merge each of description, amount,
\* category, notes, name, color, icon that localData defines has the local
\* value in the result, whatever the remote value; every field of remoteData
\* outside the user-authored set, and every user-authored one that localData
\* does not define, has the remote value; the result has no other field.
C12_MergeLocalWins ==
    last.op = "merge" =>
        LET l == last.localData
            r == last.remoteData
            m == last.merged
            authored == {"description", "amount", "category", "notes", "tags",
                         "name", "color", "icon", "keywords"}
        IN /\ \A f \in {"description", "amount", "category", "notes", "name", "color", "icon"} :
                 f \in DOMAIN l => f \in DOMAIN m /\ m[f] = l[f]
           /\ \A f \in DOMAIN r :
                 (f \notin authored \/ f \notin DOMAIN l) => f \in DOMAIN m /\ m[f] = r[f]
           /\ DOMAIN m = (DOMAIN r) \cup ((DOMAIN l) \cap authored)

\* a merge where the local amount is 0 and the local description empty, the
\* remote ones are not, and the remote side carries a system field the local
\* side has with another value
C12_Witness ==
    /\ last.op = "merge"
    /\ "amount" \in DOMAIN last.localData /\ last.localData.amount = 0
    /\ "amount" \in DOMAIN last.remoteData /\ last.remoteData.amount = 40
    /\ "description" \in DOMAIN last.localData /\ last.localData.description = ""
    /\ "description" \in DOMAIN last.remoteData /\ last.remoteData.description = "a"
    /\ "updatedAt" \in DOMAIN last.localData /\ last.localData.updatedAt = 2
    /\ "updatedAt" \in DOMAIN last.remoteData /\ last.remoteData.updatedAt = 1
    /\ last.merged.amount = 0
    /\ last.merged.updatedAt = 1

\* C13 (merge union law): in a merge, when both sides define tags (or
\* keywords) the result's array holds exactly the elements of the two arrays,
\* each once, hence the same set when the sides are swapped; when one side
\* alone defines the field the result holds that side's array.
C13_MergeUnion ==
    last.op = "merge" =>
        LET l == last.localData
            r == last.remoteData
            m == last.merged
        IN \A f \in {"tags", "keywords"} :
              /\ (f \in DOMAIN l /\ f \in DOMAIN r) =>
                    /\ Elems(m[f]) = Elems(l[f]) \cup Elems(r[f])
                    /\ Len(m[f]) = Cardinality(Elems(m[f]))
                    /\ Elems(mergeConflictData(r, l)[f]) = Elems(m[f])
              /\ (f \in DOMAIN l /\ f \notin DOMAIN r) => m[f] = l[f]
              /\ (f \notin DOMAIN l /\ f \in DOMAIN r) => m[f] = r[f]
              /\ (f \notin DOMAIN l /\ f \notin DOMAIN r) => f \notin DOMAIN m

\* a merge of tags a, b with tags b, c gave three tags, and one of keywords
\* k, k with itself gave one
C13_Witness ==
    /\ last.op = "merge"
    /\ "tags" \in DOMAIN last.localData /\ last.localData.tags = <<"a", "b">>
    /\ "tags" \in DOMAIN last.remoteData /\ last.remoteData.tags = <<"b", "c">>
    /\ last.merged.tags = <<"a", "b", "c">>
    /\ "keywords" \in DOMAIN last.localData /\ "keywords" \in DOMAIN last.remoteData
    /\ last.merged.keywords = <<"k">>

\* two pushes were under way at the same time
Overlap(a, b) == a.began < b.ended /\ b.began < a.ended

\* the push passed the conflict check on the record it read
PassedCheck(txn) ==
    ~(/\ txn.change.id \in DOMAIN txn.snapshot["Expense"]
      /\ txn.snapshot["Expense"][txn.change.id].updatedAt > txn.change.clientTimestamp)

\* the push, now done, had a changed record to write: the store refused it,
\* or the transaction held a record other than the one it read (a delete
\* that leaves the record as it is writes nothing)
Writes(txn) ==
    \/ txn.status = 500
    \/ txn.st.tx # txn.snapshot

\* C15 (concurrent push race, as stated): concurrent pushes on one record are
\* not kept from each other; a push sees a conflict only if its check runs
\* after the other's commit, and otherwise it goes through: a push that
\* passed its check is answered with its change processed, also when another
\* push wrote the record meanwhile, whose write it overwrites.
C15_BothSucceed ==
    \A d \in DOMAIN txns :
        (txns[d].pc = "done" /\ PassedCheck(txns[d])) =>
            /\ txns[d].status = 200
            /\ txns[d].conflicts = <<>>
            /\ Len(txns[d].processed["Expense"]) = 1

\* C15 (concurrent push race, amended): two pushes of different devices on
\* one record may be under way at once.  A push is reported a conflict
\* exactly when the record it read, as committed when its transaction began,
\* has an updatedAt later than its clientTimestamp, so a push sees the
\* other's write only if it began after the other's commit.  When both
\* passed the check, both change the record and they overlap, the one that
\* saves second is refused by the store and answered 500: never are both
\* answered with the change processed, and the record is the one the
\* committed push wrote.
C15_WriteConflict ==
    /\ \A d \in DOMAIN txns :
          (txns[d].pc = "done" /\ txns[d].status = 200) =>
              /\ txns[d].conflicts # <<>> <=> ~PassedCheck(txns[d])
              /\ PassedCheck(txns[d]) => Len(txns[d].processed["Expense"]) = 1
    /\ \A a, b \in DOMAIN txns :
          (/\ a # b
           /\ txns[a].pc = "done" /\ txns[b].pc = "done"
           /\ Overlap(txns[a], txns[b])
           /\ PassedCheck(txns[a]) /\ PassedCheck(txns[b])
           /\ Writes(txns[a]) /\ Writes(txns[b]))
          => /\ ~(txns[a].status = 200 /\ txns[b].status = 200)
             /\ (txns[a].status = 200 /\ txns[a].ended >= txns[b].ended) =>
                   store["Expense"][1] = txns[a].st.tx["Expense"][1]

\* two overlapping upserts of one existing record passed the check; one was
\* committed, the other answered 500
C15_Witness ==
    /\ DOMAIN txns = Devices
    /\ \E a, b \in Devices :
          /\ txns[a].pc = "done" /\ txns[b].pc = "done"
          /\ Overlap(txns[a], txns[b])
          /\ 1 \in DOMAIN txns[a].snapshot["Expense"]
          /\ txns[a].snapshot = txns[b].snapshot
          /\ txns[a].change.action = "upsert" /\ txns[b].change.action = "upsert"
          /\ PassedCheck(txns[a]) /\ PassedCheck(txns[b])
          /\ txns[a].status = 200 /\ txns[b].status = 500
          /\ store["Expense"][1] = txns[a].st.tx["Expense"][1]

\* the device's copy of every record of the user is the server's copy: same
\* fields, same updatedAt, same deleted flag
Agrees(copy, db, userId) ==
    \A id \in DOMAIN db["Expense"] :
        db["Expense"][id].userId = userId =>
            /\ id \in DOMAIN copy
            /\ copy[id] = ChangeEvent("Expense", id, db["Expense"][id])

\* C14: when a device has completed a round (a push answered with no
\* conflicts, then a changes pull with its stored high-water mark as since),
\* its copy of every record of the user equals the server's copy; no change
\* another device made before the round is missed.
C14_Convergence ==
    (IF replica = <<>> THEN FALSE ELSE replica.pc = "synced" /\ last.op = "changes")
        => Agrees(replica.copy, store, "u1")

\* a push body with a missing deviceId, a changes value that is not an
\* object, or a per-kind list that is not an array
BadPush(body) ==
    \/ Get(body, "deviceId").type = "undefined"
    \/ Get(body, "changes").type # "object"
    \/ \E kind \in {"expenses", "categories", "budgets"} :
          Get(Get(body, "changes"), kind).type \notin {"undefined", "array"}

\* a resolve-conflicts body whose conflicts is not an array, or holds a
\* resolution outside local, remote and merge
BadResolve(body) ==
    \/ Get(body, "conflicts").type # "array"
    \/ \E i \in DOMAIN Get(body, "conflicts").items :
          LET r == Get(Get(body, "conflicts").items[i], "resolution")
          IN r.type = "string" /\ r.str \notin {"local", "remote", "merge"}

\* C20: a push with a missing deviceId, a changes value that is not an
\* object or a per-kind list that is not an array, and a resolve-conflicts
\* call whose conflicts is not an array or holds a resolution outside local,
\* remote and merge, is answered 400 and nothing is persisted: no record and
\* no device entry is changed and no broadcast is sent.
C20_ValidationErrors ==
    [][/\ (Received("push") /\ BadPush(last.body) /\ ops' = ops + 1)
             => /\ last'.status = 400
                /\ store' = store
                /\ devices' = devices
                /\ last'.emitted = <<>>
       /\ (Received("resolve-conflicts") /\ BadResolve(last.body) /\ ops' = ops + 1)
             => /\ last'.status = 400
                /\ store' = store
                /\ devices' = devices]_vars

\* a push without deviceId, whose one change names a stored Expense, was
\* answered 400 while the user has a record and a registered device
C20_Witness ==
    /\ last.status = 400
    /\ last.op = "push"
    /\ Get(last.body, "deviceId").type = "undefined"
    /\ ListIn(Get(last.body, "changes"), "expenses") # <<>>
    /\ 1 \in DOMAIN store["Expense"]
    /\ devices["u1"] # <<>>

\* C21 (live notification): a push that commits sends exactly one sync-update
\* to the room of its user, carrying the pushing deviceId and exactly the
\* processed changes, which are the changes of the body that were not
\* reported as conflicts; a push answered with an error sends none and
\* leaves the store as it was, so no broadcast precedes a commit.
C21_LiveNotification ==
    [][PushStep =>
        /\ last'.status = 200 =>
              /\ Len(last'.emitted) = 1
              /\ last'.emitted[1].room = last'.userId
              /\ last'.emitted[1].deviceId = last'.deviceId
              /\ last'.emitted[1].changes = last'.processed
              /\ \A Model \in Models : \A id \in IdsOf(Model) :
                    Naming(last'.emitted[1].changes[Model], id)
                    = Naming(ListOf(last'.changes, Model), id)
                      - Naming(ConflictsOf(last'.conflicts, Model), id)
        /\ last'.status # 200 =>
              /\ last'.emitted = <<>>
              /\ store' = store
    ]_vars

\* a committed push of two changes, one reported as a conflict and one
\* processed, sent its broadcast with the one processed change
C21_Witness ==
    /\ last.op = "push"
    /\ last.status = 200
    /\ Len(last.conflicts) = 1
    /\ Len(last.emitted) = 1
    /\ Len(last.emitted[1].changes["Expense"]) = 1
    /\ last.emitted[1].deviceId = last.deviceId

\* C22 (create on push): an upsert for an id that has no record creates the
\* record under that id, owned by the pushing user whatever userId the
\* payload carries, with sync.deviceId the pushing device and
\* sync.syncVersion 1, for each of the three kinds.
C22_CreateOnPush ==
    [][PushStep =>
        \A Model \in Models : \A i \in DOMAIN ListOf(last'.changes, Model) :
            LET ch == ListOf(last'.changes, Model)[i]
            IN (ch.action = "upsert" /\ ch.id \notin DOMAIN store[Model])
               => /\ last'.status = 200
                  /\ ch.id \in DOMAIN store'[Model]
                  /\ store'[Model][ch.id].userId = last'.userId
                  /\ "deviceId" \in DOMAIN store'[Model][ch.id]
                  /\ store'[Model][ch.id].deviceId = last'.deviceId
                  /\ "syncVersion" \in DOMAIN store'[Model][ch.id]
                  /\ store'[Model][ch.id].syncVersion = 1
    ]_vars

\* the fields a soft delete may write: the flag of the kind and the dates
DeleteFields(Model) ==
    IF Model = "Expense" THEN {"isDeleted", "deletedAt", "updatedAt"}
    ELSE {"isActive", "updatedAt"}

C24_ResolveAtomicity ==
    [][ResolveStep =>
        /\ last'.failAt > 0 => last'.status = 500
        /\ last'.status # 200 =>
              /\ store' = store
              /\ devices' = devices
              /\ last'.resolved = <<>>
    ]_vars

\* a call of two conflicts failed on the second; the first, which would have
\* changed the description of the stored Expense 1, left no trace
C24_Witness ==
    /\ last.op = "resolve"
    /\ last.status = 500
    /\ last.failAt = 2
    /\ Len(last.conflicts) = 2
    /\ last.conflicts[1].id = 1
    /\ last.conflicts[1].type = "expense"
    /\ last.conflicts[1].resolution = "local"
    /\ last.conflicts[1].localData.description = "b"
    /\ 1 \in DOMAIN store["Expense"]
    /\ store["Expense"][1].description = "a"

\* no other conflict of the call names the record of conflict k
OnlyResolves(conflicts, k) ==
    \A j \in DOMAIN conflicts :
        j # k => (conflicts[j].id # conflicts[k].id \/ conflicts[j].type # conflicts[k].type)

\* C25 (resolution is create-if-missing and can resurrect): in a call no
\* storage error hits, a conflict of a known type whose id has no record
\* creates the record from the final data; a conflict resolved with the local
\* version on a record that is soft-deleted makes the record live again, so
\* that its change event is an upsert; and a conflict of any other type is
\* skipped and is not among the resolved.
C25_ResolveResurrects ==
    [][(ResolveStep /\ last'.failAt = 0) =>
        \A k \in DOMAIN last'.conflicts :
            LET c == last'.conflicts[k]
                Model == ModelOfType(c.type)
            IN /\ Model = None =>
                     \A j \in DOMAIN last'.resolved : last'.resolved[j].type # c.type
               /\ (Model # None /\ OnlyResolves(last'.conflicts, k)) =>
                     /\ last'.status = 200
                     /\ c.id \in DOMAIN store'[Model]
                     /\ c.id \notin DOMAIN store[Model] =>
                           \A f \in (DOMAIN c.localData) \cap SchemaFields(Model) :
                              c.resolution = "local" => store'[Model][c.id][f] = c.localData[f]
                     /\ (/\ c.id \in DOMAIN store[Model]
                         /\ SoftDeleted(Model, store[Model][c.id])
                         /\ c.resolution = "local") =>
                           /\ ~SoftDeleted(Model, store'[Model][c.id])
                           /\ ChangeEvent(Model, c.id, store'[Model][c.id]).action = "upsert"
    ]_vars

\* C26 (cross-user isolation): a push or resolve-conflicts call of a user
\* leaves every record owned by another user exactly as it was (not modified,
\* not soft-deleted, not given another owner), so that the other user's
\* records and change feed are the same with and without the call; and no
\* conflict answered to the caller carries another user's record as
\* remoteData.
C26_CrossUserIsolation ==
    [][(PushStep \/ ResolveStep) =>
        /\ \A Model \in Models : \A id \in DOMAIN store[Model] :
              (store[Model][id].userId \in Users \ {last'.userId}) =>
                 /\ id \in DOMAIN store'[Model]
                 /\ store'[Model][id] = store[Model][id]
        /\ (PushStep /\ last'.status = 200) =>
              \A k \in DOMAIN last'.conflicts :
                 last'.conflicts[k].remoteData.userId = last'.userId
    ]_vars

\* C27 (no lost update through resolution): when the stored record's
\* updatedAt is later than the updatedAt of the remoteData a conflict
\* carries, the server wrote the record after the conflict was reported, and
\* applying the resolution, whatever the strategy, does not replace that
\* state with the data the client sent: the record stays as it is.
C27_NoLostUpdate ==
    [][(ResolveStep /\ last'.failAt = 0) =>
        \A k \in DOMAIN last'.conflicts :
            LET c == last'.conflicts[k]
                Model == ModelOfType(c.type)
            IN (/\ Model # None
                /\ c.id \in DOMAIN store[Model]
                /\ store[Model][c.id].updatedAt > c.remoteData.updatedAt)
               => store'[Model][c.id] = store[Model][c.id]
    ]_vars

\* C28 (missing or unparsable clientTimestamp): a pushed change, upsert or
\* delete, whose clientTimestamp is missing or is no date leaves an existing
\* record as it is: the change is refused or reported as a conflict, never
\* applied.
C28_InvalidTimestamp ==
    [][PushStep =>
        \A Model \in Models : \A i \in DOMAIN ListOf(last'.changes, Model) :
            LET ch == ListOf(last'.changes, Model)[i]
            IN (ch.clientTimestamp = InvalidDate /\ ch.id \in DOMAIN store[Model])
               => /\ store'[Model][ch.id] = store[Model][ch.id]
                  /\ last'.status = 200 => last'.processed[Model] = <<>>
    ]_vars

\* C29 (lastSyncAt is a true high-water mark): at every point, each record
\* of the user that another device wrote and whose updatedAt is not later
\* than the lastSyncAt stored for device dA has been returned to dA by a
\* changes call, as it is now; registering dA, registering it again or a
\* push of dA never moves lastSyncAt past a change dA has not pulled.
C29_HighWaterMark ==
    FindDevice(devices["u1"], "dA") # {} =>
        \A id \in DOMAIN store["Expense"] :
            (/\ store["Expense"][id].userId = "u1"
             /\ store["Expense"][id].deviceId # "dA"
             /\ store["Expense"][id].updatedAt <= HighWaterMark("u1", "dA"))
            => /\ replica # <<>>
               /\ id \in DOMAIN replica.copy
               /\ replica.copy[id] = ChangeEvent("Expense", id, store["Expense"][id])

\* C30 (offline request queue): when the service worker answers a POST, PUT
\* or DELETE that met a network error with "Request queued for when you come
\* back online", that request is in the offline queue; a stored request
\* leaves the queue only in a sync whose replay of it got an ok response;
\* and a stored request whose replay failed or got a response that is not
\* ok is still stored, unchanged.
C30_OfflineQueue ==
    [][/\ IF last.op = "none" /\ last'.op = "fetch"
          THEN last'.response = "queued" =>
                   \E key \in DOMAIN caches'.offline :
                       /\ key \notin DOMAIN caches.offline
                       /\ caches'.offline[key].url = last'.request.url
                       /\ caches'.offline[key].method = last'.request.method
                       /\ caches'.offline[key].body =
                              (IF last'.request.body = <<>> THEN <<"">>
                               ELSE last'.request.body)
          ELSE TRUE
       /\ \A key \in DOMAIN caches.offline :
              key \notin DOMAIN caches'.offline =>
                  IF last'.op = "sync" THEN last'.outcomes[key] = "ok" ELSE FALSE
       /\ IF last.op = "none" /\ last'.op = "sync"
          THEN \A key \in DOMAIN caches.offline :
                   last'.outcomes[key] # "ok" =>
                       /\ key \in DOMAIN caches'.offline
                       /\ caches'.offline[key] = caches.offline[key]
          ELSE TRUE]_vars

====
